---------------------------- MODULE Spec2Model ----------------------------
(***************************************************************************)
(* Model of the Game state machine of src/src/main.rs (kuviman/ludum53):   *)
(* the item hold/throw lifecycle driven by pointer events, the per-tick    *)
(* item integration, and the sliding window of mailboxes that follows the  *)
(* player latitude.                                                        *)
(*                                                                         *)
(* Numbers.  The program computes in f32.  The fields of a mailbox (its    *)
(* latitude in radians and its lateral offset x), the player latitude and  *)
(* the Config values they are computed from are held as the bit pattern    *)
(* of the f32 value, read as an integer and negated for a negative value:  *)
(* that integer orders the values as f32 does, and F32Add and F32Mul       *)
(* compute the correctly rounded f32 sum and product on it (4.0 is         *)
(* 1082130432).  Item coordinates, velocities and delta_time are small whole *)
(* numbers, which f32 holds and adds exactly, and are held as integers.    *)
(* Item rotations and throw deviations are measured in quarter turns, for  *)
(* which a rotation of the plane is exact on integer vectors.  Pointer     *)
(* positions are chosen so that the throw direction is axis-aligned and    *)
(* its normalisation is exact.                                             *)
(***************************************************************************)
EXTENDS Integers, Sequences, FiniteSets

(***************************************************************************)
(* Bounds of the model.                                                    *)
(***************************************************************************)
\* Items the bag may hand out in one behaviour.
MaxItems == 2
\* Simulated time (sum of the ticks' delta_time) in one behaviour.
MaxTime == 3
\* Iterations one run of the fill loop may take.
MaxFillIter == 64
\* Simulated time after a long tick, in a behaviour of the long ride.
MaxLongTime == 1

\* delta_time values a tick may carry.
DtSet == {0, 1, 2}
\* delta_time values of a long tick: ride_speed times the first is a
\* latitude between 2^20 and 2^21 radians, where f32 values are 0.125
\* apart; times the second, one between 2^22 and 2^23, where they are 0.5
\* apart.
LongDts == {2 ^ 19, 2 ^ 21}
\* delta_time values a tick of the long ride may carry.
DtLong == {0, 1} \cup LongDts
\* Framebuffer sizes a draw may latch (width, height).
FbSizes == {<<8, 8>>}
\* Pointer positions, in framebuffer pixels.
Pixels == {<<4, 0>>, <<4, 8>>}
\* Initial rotations Item::new may draw, in quarter turns (0 .. 2*PI is 0 .. 3).
RotDraws == {1}

(***************************************************************************)
(* Program constants: f32::PI and the Config fields.                       *)
(***************************************************************************)
\* f32::PI, 3.1415927 (0x40490FDB).
PI == 1078530011
\* The factor of f32::to_radians, PI / 180 in f32: 0.017453292 (0x3C8EFA35).
RadsPerDeg == 1016003125
gravity == 1
throw_speed == 2
\* throw_angle of 90 degrees is one quarter turn.
throw_angle == 1
item_scale == 1
hand_radius == 1
\* item_max_w in quarter turns per unit of time.
item_max_w == 1
throw_target_height == 4
ui_fov == 8
\* ride_speed 3.403392 radians (195 degrees) per unit of time (0x4059D12D).
ride_speed == 1079628077
\* road_width of 3.0 (0x40400000).
road_width == 1077936128
\* mailbox_size of 2.0 (0x40000000).
mailbox_size == 1073741824
\* distance_between_mailboxes of 10.0 degrees (0x41200000).
distance_between_mailboxes == 1092616192
\* Aspect ratio (width / height) of the envelope texture.
envelope_aspect == 2

VARIABLES
    items,                      \* Game.items: Vec<Item>, in throw order
    holding,                    \* Game.holding: Option<Item>, <<>> or <<item>>
    mailboxes,                  \* Game.mailboxes: Vec<Mailbox>
    my_latitude,                \* Game.my_latitude, f32 bits
    framebuffer_size,           \* Game.framebuffer_size
    next_id,                    \* identity of the next Item::new object
    seeds,                      \* player latitudes that seeded a fill of an empty collection
    last                        \* what the last event did with the pointer

vars == <<items, holding, mailboxes, my_latitude, framebuffer_size,
          next_id, seeds, last>>

(***************************************************************************)
(* Vector helpers.                                                         *)
(***************************************************************************)
Sgn(n) == IF n > 0 THEN 1 ELSE IF n < 0 THEN -1 ELSE 0

VAdd(a, b) == <<a[1] + b[1], a[2] + b[2]>>
VSub(a, b) == <<a[1] - b[1], a[2] - b[2]>>
VScale(a, k) == <<a[1] * k, a[2] * k>>

\* vec2::rotate by q quarter turns (counter-clockwise).
Rotate(v, q) ==
    CASE q % 4 = 0 -> v
      [] q % 4 = 1 -> <<-v[2], v[1]>>
      [] q % 4 = 2 -> <<-v[1], -v[2]>>
      [] q % 4 = 3 -> <<v[2], -v[1]>>

\* A vector whose normalisation is exact in integers.
Aligned(v) == v[1] = 0 \/ v[2] = 0

\* vec2::normalize_or_zero, on aligned vectors.
NormalizeOrZero(v) == <<Sgn(v[1]), Sgn(v[2])>>

(***************************************************************************)
(* f32 arithmetic (round to nearest, ties to even) on bit patterns: a      *)
(* value is sign * significand * 2^exponent with the significand in        *)
(* 2^23 .. 2^24 - 1, and its pattern is (exponent + 150) * 2^23 +          *)
(* significand - 2^23.  Zero is 0.  Subnormal, infinite and NaN values do  *)
(* not arise.                                                              *)
(***************************************************************************)
\* An f32 significand is below F32Limit.
F32Limit == 2 ^ 24
F32Hidden == 2 ^ 23

Abs(n) == IF n < 0 THEN -n ELSE n

\* The significand and the exponent of the value with pattern b > 0.
Significand(b) == (b % F32Hidden) + F32Hidden
Exponent(b) == (b \div F32Hidden) - 150

\* The distance between the integers of 24 significant bits around a >= 0,
\* at least u.
RECURSIVE F32Ulp(_, _)
F32Ulp(a, u) == IF a \div u < F32Limit THEN u ELSE F32Ulp(a, 2 * u)

\* a >= 0 rounded to 24 significant bits, ties to the even significand.
RoundF32Abs(a) ==
    LET u == F32Ulp(a, 1)
        q == a \div u
        r == a % u
    IN  IF 2 * r < u THEN q * u
        ELSE IF 2 * r > u THEN (q + 1) * u
        ELSE IF q % 2 = 0 THEN q * u ELSE (q + 1) * u

\* The pattern of m * 2^e, for m > 0 of at most 24 significant bits.
RECURSIVE PackExact(_, _)
PackExact(m, e) ==
    IF m >= F32Limit THEN PackExact(m \div 2, e + 1)
    ELSE IF m < F32Hidden THEN PackExact(2 * m, e - 1)
    ELSE (e + 150) * F32Hidden + m - F32Hidden

\* The pattern of the f32 value nearest to m * 2^e, for m >= 0.
Pack(m, e) == IF m = 0 THEN 0 ELSE PackExact(RoundF32Abs(m), e)

\* The f32 sum a + b.  The significand of the larger operand is extended
\* by three bits; the smaller one is shifted to the same exponent, the
\* bits shifted out leaving a sticky lowest bit.
F32Add(a, b) ==
    IF a = 0 THEN b
    ELSE IF b = 0 THEN a
    ELSE LET x == IF Abs(a) >= Abs(b) THEN a ELSE b
             y == IF Abs(a) >= Abs(b) THEN b ELSE a
             d == Exponent(Abs(x)) - Exponent(Abs(y))
             wide == 8 * Significand(Abs(x))
             full == 8 * Significand(Abs(y))
             shifted == IF d >= 28 THEN 0 ELSE full \div (2 ^ d)
             lost == d >= 28 \/ full % (2 ^ d) # 0
             small == IF lost /\ shifted % 2 = 0 THEN shifted + 1 ELSE shifted
             sum == IF (x > 0) = (y > 0) THEN wide + small ELSE wide - small
             r == Pack(sum, Exponent(Abs(x)) - 3)
         IN  IF x > 0 THEN r ELSE -r

\* The f32 difference a - b.
F32Sub(a, b) == F32Add(a, -b)

\* m * 2^e with the factors of two of m moved to the exponent (m > 0).
RECURSIVE OddPart(_, _)
OddPart(m, e) == IF m % 2 = 0 THEN OddPart(m \div 2, e + 1) ELSE <<m, e>>

\* The f32 product a * b, for operands whose significands, without their
\* trailing zero bits, have a product below 2^31.
F32Mul(a, b) ==
    IF a = 0 \/ b = 0 THEN 0
    ELSE LET p == OddPart(Significand(Abs(a)), Exponent(Abs(a)))
             q == OddPart(Significand(Abs(b)), Exponent(Abs(b)))
             r == Pack(p[1] * q[1], p[2] + q[2])
         IN  IF (a > 0) = (b > 0) THEN r ELSE -r

\* The f32 quotient a / 2.0: the exponent less one.
F32Half(a) ==
    IF a = 0 THEN 0 ELSE IF a > 0 THEN a - F32Hidden ELSE a + F32Hidden

\* The f32 value of the whole number n (`as f32`).
F32FromInt(n) == IF n < 0 THEN -Pack(-n, 0) ELSE Pack(n, 0)

\* f32::to_radians: self * (PI / 180).
ToRadians(d) == F32Mul(d, RadsPerDeg)

\* Aabb2::contains: min <= p < max on both axes.
AabbContains(min, max, p) ==
    /\ min[1] <= p[1] /\ p[1] < max[1]
    /\ min[2] <= p[2] /\ p[2] < max[2]

(***************************************************************************)
(* Camera (2D overlay view).                                               *)
(***************************************************************************)
\* Camera::fov: the vertical extent of the overlay view.
CameraFov == ui_fov

\* Camera2d::screen_to_world of the view as_2d() returns: centred at the
\* origin, unrotated, vertical extent CameraFov.
ScreenToWorld(fb, px) ==
    <<((2 * px[1] - fb[1]) * (CameraFov \div 2)) \div fb[2],
      ((2 * px[2] - fb[2]) * (CameraFov \div 2)) \div fb[2]>>

\* Game.bag_position: the point (0, -fov/2 + 1) extended by 1.
bag_position ==
    [min |-> <<-1, -(CameraFov \div 2) + 1 - 1>>,
     max |-> <<1, -(CameraFov \div 2) + 1 + 1>>]

(***************************************************************************)
(* Items.                                                                  *)
(***************************************************************************)
\* Item.half_size: (aspect, 1) * scale.
half_size == <<envelope_aspect * item_scale, item_scale>>

\* Item::new, with the object's identity and the rotation drawn.
NewItem(id, rot) ==
    [id |-> id, pos |-> <<0, 0>>, vel |-> <<0, 0>>, rot |-> rot, w |-> 0]

\* The hit test of MouseDown: pos taken back through translate, rotate and
\* the scale padded by hand_radius, lies in the unit box.
Hit(item, pos) ==
    LET local == Rotate(VSub(pos, item.pos), 4 - (item.rot % 4))
        hx == half_size[1] + hand_radius
        hy == half_size[2] + hand_radius
    IN  AabbContains(<<-hx, -hy>>, <<hx, hy>>, local)

\* Iterator::position: the first index whose item is hit, 0 for None.
RECURSIVE PositionFrom(_, _, _)
PositionFrom(s, pos, i) ==
    IF i > Len(s) THEN 0
    ELSE IF Hit(s[i], pos) THEN i
    ELSE PositionFrom(s, pos, i + 1)

\* Iterator::rposition: scan from the back, the first index found; 0 for None.
RECURSIVE RPositionFrom(_, _, _)
RPositionFrom(s, pos, i) ==
    IF i = 0 THEN 0
    ELSE IF Hit(s[i], pos) THEN i
    ELSE RPositionFrom(s, pos, i - 1)

RPosition_First(s, pos) == PositionFrom(s, pos, 1)

RPosition(s, pos) == RPositionFrom(s, pos, Len(s))

RemoveAt_Keep(s, i) == s

\* Vec::remove(index): the vector without the element, order kept.
RemoveAt(s, i) == SubSeq(s, 1, i - 1) \o SubSeq(s, i + 1, Len(s))

InBag_Everywhere(pos) == TRUE

\* The bag's hit region: bag_position extended by hand_radius.
InBag(pos) ==
    AabbContains(<<bag_position.min[1] - hand_radius, bag_position.min[2] - hand_radius>>,
                 <<bag_position.max[1] + hand_radius, bag_position.max[2] + hand_radius>>,
                 pos)

\* Deviations gen_range(-throw_angle .. throw_angle) may draw, in quarter turns.
AngleDraws == (-throw_angle) .. (throw_angle - 1)
\* Values gen_range(-1.0 .. 1.0) may draw.
SpinDraws == (-1) .. 0

\* The velocity MouseUp gives an item released at pos with deviation a.
ThrowVel(pos, a) ==
    VScale(Rotate(NormalizeOrZero(VSub(<<0, throw_target_height>>, pos)), a + 4),
           throw_speed)

Thrown_KeepMotion(item, pos, a, u) == [item EXCEPT !.pos = pos]

\* The item MouseUp pushes: position, velocity and angular velocity set.
Thrown(item, pos, a, u) ==
    [item EXCEPT !.pos = pos, !.vel = ThrowVel(pos, a), !.w = u * item_max_w]

Integrate_OldVelocity(item, dt) ==
    [item EXCEPT !.vel = <<item.vel[1], item.vel[2] - gravity * dt>>,
                 !.pos = VAdd(item.pos, VScale(item.vel, dt)),
                 !.rot = item.rot + item.w * dt]

\* One integration step of update for one item.
Integrate(item, dt) ==
    LET vy == item.vel[2] - gravity * dt
        vel == <<item.vel[1], vy>>
    IN  [item EXCEPT !.vel = vel,
                     !.pos = VAdd(item.pos, VScale(vel, dt)),
                     !.rot = item.rot + item.w * dt]

IntegrateAll_Cull(s, dt) ==
    LET moved == [i \in 1 .. Len(s) |-> Integrate(s[i], dt)]
        OnScreen(item) == item.pos[2] >= -(CameraFov \div 2)
    IN  SelectSeq(moved, OnScreen)

\* The integration loop of update: every flying item, in place.
IntegrateAll(s, dt) == [i \in 1 .. Len(s) |-> Integrate(s[i], dt)]

Push_Front(s, item) == <<item>> \o s

\* Vec::push.
Push(s, item) == Append(s, item)

(***************************************************************************)
(* Mailboxes.                                                              *)
(***************************************************************************)
\* The lateral offset of a mailbox (f32 bits): x as f32 times the sum of
\* the road width and half the mailbox size.
MailboxXs ==
    [x \in {-1, 1} |->
        F32Mul(F32FromInt(x), F32Add(road_width, F32Half(mailbox_size)))]

MailboxX(side) == MailboxXs[side]

MailboxPair_SameSide(latitude) ==
    <<[x |-> MailboxX(1), latitude |-> latitude],
      [x |-> MailboxX(1), latitude |-> latitude]>>

\* The two mailboxes pushed by one iteration of the fill loop: x in [-1, 1].
MailboxPair(latitude) ==
    <<[x |-> MailboxX(-1), latitude |-> latitude],
      [x |-> MailboxX(1), latitude |-> latitude]>>

Keep_Behind(mailbox, behind) == mailbox.latitude <= behind

Keep_All(mailbox, behind) == TRUE

\* The predicate of retain, behind being my_latitude - PI.
Keep(mailbox, behind) == mailbox.latitude > behind

\* Vec::retain with Keep.
Retain(s, my) ==
    LET behind == F32Sub(my, PI)
    IN  SelectSeq(s, LAMBDA mailbox : Keep(mailbox, behind))

MoreWanted_Long(s, ahead) == s = <<>> \/ s[Len(s)].latitude < F32Add(ahead, PI)

\* The condition of the fill loop, last().map_or(true, latitude < my + PI),
\* ahead being my_latitude + PI.
MoreWanted(s, ahead) == s = <<>> \/ s[Len(s)].latitude < ahead

\* The fill loop, cut off after fuel iterations; step is the spacing in
\* radians.
RECURSIVE FillLoop(_, _, _, _, _)
FillLoop(s, my, ahead, step, fuel) ==
    IF fuel > 0 /\ MoreWanted(s, ahead)
    THEN LET last_latitude == IF s = <<>> THEN my ELSE s[Len(s)].latitude
             latitude == F32Add(last_latitude, step)
         IN  FillLoop(s \o MailboxPair(latitude), my, ahead, step, fuel - 1)
    ELSE s

\* The fill loop.
Fill(s, my, spacing) ==
    FillLoop(s, my, F32Add(my, PI), ToRadians(spacing), MaxFillIter)

(***************************************************************************)
(* What the last event did, as far as the pointer is concerned: "pick"     *)
(* when it was a MouseDown that took a flying item while nothing was held  *)
(* (with the pointer's pixel, the number of items under it and the          *)
(* identities of the flying items before it),                              *)
(* "roundtrip" when it was the MouseUp at the same pixel right after such  *)
(* a pick, "noop" when it was a MouseDown with nothing held that found     *)
(* neither an item nor the bag or a MouseUp with nothing held, "none"      *)
(* otherwise.                                                              *)
(***************************************************************************)
NoPixel == <<0, 0>>

Event(kind, px, hits, pre) == [kind |-> kind, px |-> px, hits |-> hits, pre |-> pre]

NoEvent == Event("none", NoPixel, 0, <<>>)

\* The identities of the items of a sequence, in order.
Ids(s) == [i \in 1 .. Len(s) |-> s[i].id]

\* Number of flying items whose hit region contains pos.
HitCount(s, pos) == Cardinality({i \in 1 .. Len(s) : Hit(s[i], pos)})

(***************************************************************************)
(* Initial state: Game::new.                                               *)
(***************************************************************************)
Init ==
    /\ items = <<>>
    /\ holding = <<>>
    /\ mailboxes = <<>>
    /\ my_latitude = 0
    /\ framebuffer_size = <<1, 1>>
    /\ next_id = 1
    /\ seeds = <<>>
    /\ last = NoEvent

(***************************************************************************)
(* handle_event, MouseDown with the left button.                           *)
(***************************************************************************)
MouseDown_BagFirst(px) ==
    LET pos == ScreenToWorld(framebuffer_size, px)
        index == RPosition(items, pos)
    IN  /\ IF InBag(pos)
           THEN /\ next_id <= MaxItems
                /\ \E rot \in RotDraws : holding' = <<NewItem(next_id, rot)>>
                /\ items' = items
                /\ next_id' = next_id + 1
                /\ last' = NoEvent
           ELSE IF index # 0
           THEN /\ holding' = <<items[index]>>
                /\ items' = RemoveAt(items, index)
                /\ next_id' = next_id
                /\ last' = IF holding = <<>>
                           THEN Event("pick", px, HitCount(items, pos), Ids(items))
                           ELSE NoEvent
           ELSE /\ UNCHANGED <<holding, items, next_id>>
                /\ last' = IF holding = <<>>
                           THEN Event("noop", NoPixel, 0, <<>>)
                           ELSE NoEvent
        /\ UNCHANGED <<mailboxes, my_latitude, framebuffer_size, seeds>>

MouseDown(px) ==
    LET pos == ScreenToWorld(framebuffer_size, px)
        index == RPosition(items, pos)
    IN  /\ IF index # 0
           THEN /\ holding' = <<items[index]>>
                /\ items' = RemoveAt(items, index)
                /\ next_id' = next_id
                /\ last' = IF holding = <<>>
                           THEN Event("pick", px, HitCount(items, pos), Ids(items))
                           ELSE NoEvent
           ELSE IF InBag(pos)
           THEN /\ next_id <= MaxItems
                /\ \E rot \in RotDraws : holding' = <<NewItem(next_id, rot)>>
                /\ items' = items
                /\ next_id' = next_id + 1
                /\ last' = NoEvent
           ELSE /\ UNCHANGED <<holding, items, next_id>>
                /\ last' = IF holding = <<>>
                           THEN Event("noop", NoPixel, 0, <<>>)
                           ELSE NoEvent
        /\ UNCHANGED <<mailboxes, my_latitude, framebuffer_size, seeds>>

(***************************************************************************)
(* handle_event, MouseUp with the left button.                             *)
(***************************************************************************)
MouseUp(px) ==
    LET pos == ScreenToWorld(framebuffer_size, px)
        round_trip == last.kind = "pick" /\ last.px = px
    IN  /\ IF holding # <<>>
           THEN /\ Aligned(VSub(<<0, throw_target_height>>, pos))
                /\ \E a \in AngleDraws, u \in SpinDraws :
                       items' = Push(items, Thrown(holding[1], pos, a, u))
                /\ holding' = <<>>
                /\ last' = IF round_trip THEN Event("roundtrip", NoPixel, 0, <<>>) ELSE NoEvent
           ELSE /\ UNCHANGED <<holding, items>>
                /\ last' = Event("noop", NoPixel, 0, <<>>)
        /\ UNCHANGED <<mailboxes, my_latitude, framebuffer_size, next_id, seeds>>

(***************************************************************************)
(* handle_event, any other event.                                          *)
(***************************************************************************)
OtherEvent ==
    /\ last' = NoEvent
    /\ UNCHANGED <<items, holding, mailboxes, my_latitude, framebuffer_size,
                   next_id, seeds>>

(***************************************************************************)
(* update.                                                                 *)
(***************************************************************************)
\* The latitude a tick of length dt moves the player to.
RideStep == [dt \in DtSet \cup DtLong |-> F32Mul(ride_speed, F32FromInt(dt))]

Advance(my, dt) == F32Add(my, RideStep[dt])

\* The Game whose fields are the given values.
Game(its, held, boxes, lat) ==
    [items |-> its, holding |-> held, mailboxes |-> boxes, my_latitude |-> lat]

\* The Game of the current state.
GameState == Game(items, holding, mailboxes, my_latitude)

TickItems_HeldPause(g, dt) ==
    IF g.holding # <<>> THEN g.items ELSE IntegrateAll(g.items, dt)

\* The flying items of the game g after the integration loop of update.
TickItems(g, dt) == IntegrateAll(g.items, dt)

\* The tick.
Tick(dt) ==
    LET my == Advance(my_latitude, dt)
        kept == Retain(mailboxes, my)
    IN  /\ items' = TickItems(GameState, dt)
        /\ my_latitude' = my
        /\ last' = NoEvent
        /\ UNCHANGED <<holding, framebuffer_size, next_id>>
        /\ seeds' = IF kept = <<>> THEN Append(seeds, my) ELSE seeds
        /\ mailboxes' = Fill(kept, my, distance_between_mailboxes)

\* A latitude the player passes after MaxTime units of time and before
\* MaxTime + 1.
LatitudeLimit ==
    F32Add(F32Mul(ride_speed, F32FromInt(MaxTime)), ToRadians(distance_between_mailboxes))

\* A tick within the simulated time of one behaviour.
Update(dt) ==
    /\ Advance(my_latitude, dt) <= LatitudeLimit
    /\ Tick(dt)

\* A tick of the long ride: from the start, either no time passes or one
\* long tick takes the player far along the road, after which time passes
\* in units.  The long tick is taken with no item in flight: the
\* coordinates it would give a flying item are f32 values beyond the
\* integers the model computes with.
UpdateLong(dt) ==
    /\ \/ dt = 0
       \/ dt \in LongDts /\ my_latitude = 0 /\ items = <<>>
       \/ /\ dt = 1
          /\ \E d \in LongDts :
                 /\ Advance(0, d) <= my_latitude
                 /\ Advance(my_latitude, dt) <= Advance(Advance(0, d), MaxLongTime)
    /\ Tick(dt)

(***************************************************************************)
(* draw: latches the framebuffer size, then only reads the state to issue  *)
(* draw calls.  The camera's copy of the latitude and the framebuffer's    *)
(* contents are render state, which no event handler or tick reads.        *)
(***************************************************************************)
Draw_TakesHolding(size) ==
    /\ framebuffer_size' = size
    /\ holding' = <<>>
    /\ last' = NoEvent
    /\ UNCHANGED <<items, mailboxes, my_latitude, next_id, seeds>>

Draw(size) ==
    /\ framebuffer_size' = size
    /\ last' = NoEvent
    /\ UNCHANGED <<items, holding, mailboxes, my_latitude, next_id, seeds>>

Next ==
    \/ \E px \in Pixels : MouseDown(px)
    \/ \E px \in Pixels : MouseUp(px)
    \/ OtherEvent
    \/ \E dt \in DtSet : Update(dt)
    \/ \E size \in FbSizes : Draw(size)

Spec == Init /\ [][Next]_vars

\* The last tick has returned: its fill loop ended by its own condition.
Returned == mailboxes = <<>> \/ ~MoreWanted(mailboxes, F32Add(my_latitude, PI))

\* The long ride: the program with ticks that take the player to latitudes
\* beyond 2^20 radians.  A tick whose fill loop does not end never returns,
\* and the program takes no step after it.
NextLong ==
    \/ \E px \in Pixels : Returned /\ MouseDown(px)
    \/ \E px \in Pixels : Returned /\ MouseUp(px)
    \/ Returned /\ OtherEvent
    \/ \E dt \in DtLong : Returned /\ UpdateLong(dt)
    \/ \E size \in FbSizes : Returned /\ Draw(size)

SpecLong == Init /\ [][NextLong]_vars


(***************************************************************************)
(* Properties.                                                             *)
(***************************************************************************)
\* The spacing of the pairs, in radians (f32 bits).
Spacing == ToRadians(distance_between_mailboxes)

\* The value of the pattern b, as a whole number of units of 2^-26 radians:
\* exact for the values below 32 that are multiples of the unit, as f32::PI,
\* the spacing, ride_speed and all their f32 sums are.
Units(b) ==
    IF b = 0 THEN 0
    ELSE LET m == Significand(Abs(b))
             e == Exponent(Abs(b)) + 26
             v == IF e >= 0 THEN m * (2 ^ e) ELSE m \div (2 ^ (-e))
         IN  IF b > 0 THEN v ELSE -v

\* The rounding a latitude built of f32 sums may have gathered, in units.
Slack == Units(Spacing) \div 1024

\* The exact difference a - b of two latitudes a, b >= 0, in units, for
\* latitudes less than 32 radians apart: the significands are brought to
\* the smaller exponent before they are subtracted, so the difference of
\* two large latitudes stays a small number.
Diff(a, b) ==
    IF b = 0 THEN Units(a)
    ELSE IF a = 0 THEN -Units(b)
    ELSE LET g == IF Exponent(a) < Exponent(b) THEN Exponent(a) ELSE Exponent(b)
             d == Significand(a) * (2 ^ (Exponent(a) - g))
                      - Significand(b) * (2 ^ (Exponent(b) - g))
         IN  IF g + 26 >= 0 THEN d * (2 ^ (g + 26)) ELSE d \div (2 ^ (-(g + 26)))

\* Some mailbox stands l units beyond the latitude seed, up to rounding.
Present(seed, l) ==
    \E i \in 1 .. Len(mailboxes) :
        Abs(Diff(mailboxes[i].latitude, seed) - l) <= Slack

IdSet(s) == {s[i].id : i \in 1 .. Len(s)}

SetMax(S) == CHOOSE m \in S : \A n \in S : n <= m

\* Some mailbox has been dropped since the collection was last seeded.
SomeDropped ==
    /\ mailboxes # <<>>
    /\ mailboxes[1].latitude > F32Add(seeds[Len(seeds)], Spacing)

\* C1 as stated: after each tick every mailbox has a latitude strictly
\* between my_latitude - PI and my_latitude + PI.
C1_WindowBounds_AsStated ==
    \A i \in 1 .. Len(mailboxes) :
        /\ Units(my_latitude) - Units(PI) < Units(mailboxes[i].latitude)
        /\ Units(mailboxes[i].latitude) < Units(my_latitude) + Units(PI)

\* C1, amended: after each tick every mailbox has a latitude strictly above
\* my_latitude - PI; every mailbox but the last pair is strictly below
\* my_latitude + PI; the last pair is not below the f32 sum
\* my_latitude + PI the program computes (which may fall short of the
\* exact sum by a rounding step) and less than one spacing beyond it.
C1_WindowBounds ==
    \A i \in 1 .. Len(mailboxes) :
        /\ Units(my_latitude) - Units(PI) < Units(mailboxes[i].latitude)
        /\ i <= Len(mailboxes) - 2 =>
               Units(mailboxes[i].latitude) < Units(my_latitude) + Units(PI)
        /\ i > Len(mailboxes) - 2 =>
               /\ F32Add(my_latitude, PI) <= mailboxes[i].latitude
               /\ Units(mailboxes[i].latitude)
                      < Units(F32Add(my_latitude, PI)) + Units(Spacing)

\* A tick has advanced the player and dropped mailboxes behind the window.
C1_Witness == SomeDropped /\ my_latitude > PI

\* C2: after every tick the collection holds every latitude
\* seed + k*spacing (k >= 1, seed the player latitude of the first spawn)
\* that lies in [my_latitude - PI, my_latitude + PI).  Stated for the
\* behaviours in which the first spawn is the only fill of an empty
\* collection, for ticks that have returned, and with a grid latitude
\* counted as present when a mailbox stands within 1/1024 of a spacing of
\* it.
C2_WindowComplete ==
    (Len(seeds) = 1 /\ Returned) =>
        LET seed == seeds[1]
            lo == Diff(my_latitude, seed) - Units(PI)
            hi == Diff(my_latitude, seed) + Units(PI)
            n == hi \div Units(Spacing) + 1
        IN  \A k \in 1 .. n :
                (lo <= k * Units(Spacing) /\ k * Units(Spacing) < hi)
                    => Present(seed, k * Units(Spacing))

\* C3: no item is both held and flying, and no item is flying twice.
C3_StateExclusivity ==
    /\ \A i \in 1 .. Len(items) : holding # <<>> => items[i].id # holding[1].id
    /\ \A i, j \in 1 .. Len(items) : i # j => items[i].id # items[j].id

\* A pick-up took one of two flying items: one is held, the other still flies.
C3_Witness == last.kind = "pick" /\ holding # <<>> /\ Len(items) >= 1

\* C4: a pointer-down received while an item is held leaves the held item
\* and the flying collection unchanged.
C4_HeldIgnoresPointerDown ==
    [][(holding # <<>> /\ \E px \in Pixels : MouseDown(px))
           => UNCHANGED <<holding, items>>]_vars

\* C5: every item ever created is in exactly one place, the held slot or
\* the flying collection.
C5_NoItemLost ==
    \A id \in 1 .. (next_id - 1) :
        LET held == holding # <<>> /\ holding[1].id = id
            flying == Cardinality({i \in 1 .. Len(items) : items[i].id = id})
        IN  (IF held THEN 1 ELSE 0) + flying = 1

\* C6: a pointer-down over two or more flying items picks up the one with
\* the highest index among those hit.
C6_TieBreak ==
    [][\A px \in Pixels :
           LET pos == ScreenToWorld(framebuffer_size, px)
               hit == {i \in 1 .. Len(items) : Hit(items[i], pos)}
           IN  (MouseDown(px) /\ Cardinality(hit) >= 2)
                   => holding' = <<items[SetMax(hit)]>>]_vars

\* A pick-up happened with at least two flying items under the pointer.
C6_Witness == last.kind = "pick" /\ last.hits >= 2

\* The distance of a mailbox from the middle of the road (f32 bits).
LateralOffset == F32Add(road_width, F32Half(mailbox_size))

\* C7: the mailbox collection consists of left/right pairs: even length,
\* elements 2k-1 and 2k (counting from 1) at equal latitude with lateral
\* offsets -(road_width + mailbox_size/2) and +(road_width + mailbox_size/2).
C7_Pairs ==
    /\ Len(mailboxes) % 2 = 0
    /\ \A k \in 1 .. (Len(mailboxes) \div 2) :
           /\ mailboxes[2 * k - 1].latitude = mailboxes[2 * k].latitude
           /\ mailboxes[2 * k - 1].x = -LateralOffset
           /\ mailboxes[2 * k].x = LateralOffset

\* Pairs were spawned and pairs behind the window were dropped.
C7_Witness == SomeDropped /\ Len(mailboxes) >= 4

\* C8: after a pick-up with nothing held, a pointer-up at the same pixel
\* empties the held slot and puts the item back: the flying collection has
\* the items and the size it had before the pick-up, the item is at the
\* pointer's position, and its velocity and angular velocity are the ones
\* drawn at release.
C8_RoundTrip ==
    [][\A px \in Pixels :
           (last.kind = "pick" /\ last.px = px /\ MouseUp(px)) =>
               LET pos == ScreenToWorld(framebuffer_size, px)
                   back == items'[Len(items')]
               IN  /\ holding' = <<>>
                   /\ Len(items') = Len(last.pre)
                   /\ IdSet(items') = {last.pre[i] : i \in 1 .. Len(last.pre)}
                   /\ back.id = holding[1].id
                   /\ back.pos = pos
                   /\ back.vel \in {ThrowVel(pos, a) : a \in AngleDraws}
                   /\ back.w \in {u * item_max_w : u \in SpinDraws}
                   /\ back.rot = holding[1].rot]_vars

\* A pick-up was followed at once by a release at the same pixel.
C8_Witness == last.kind = "roundtrip" /\ holding = <<>> /\ items # <<>>

\* The state after the startup fill: the player has not moved and the
\* collection was filled from empty with my_latitude 0 as the seed.
AfterStartupFill == my_latitude = 0 /\ seeds = <<0>> /\ mailboxes # <<>>

\* The pairs after the startup fill stand at spacing, 2*spacing, ... and
\* each pair is symmetric in x.
StartupPairs ==
    /\ Len(mailboxes) % 2 = 0
    /\ \A k \in 1 .. (Len(mailboxes) \div 2) :
           /\ Abs(Units(mailboxes[2 * k - 1].latitude) - k * Units(Spacing)) <= Slack
           /\ mailboxes[2 * k].latitude = mailboxes[2 * k - 1].latitude
           /\ mailboxes[2 * k - 1].x = -mailboxes[2 * k].x
           /\ mailboxes[2 * k].x # 0

\* C9 as stated: with a spacing of 10 degrees the startup fill produces the
\* pairs at 10, 20, ... degrees, the last pair strictly below 180 degrees.
C9_StartupFill_AsStated ==
    AfterStartupFill =>
        /\ StartupPairs
        /\ mailboxes[Len(mailboxes)].latitude < PI

\* C9, amended: with a spacing of 10 degrees the startup fill produces the
\* pairs at 10, 20, ... degrees up to and including the first pair that is
\* not below 180 degrees: every pair but the last is strictly below 180
\* degrees and the last pair is at 180 degrees or less than one spacing
\* past it.
C9_StartupFill ==
    AfterStartupFill =>
        /\ StartupPairs
        /\ \A i \in 1 .. (Len(mailboxes) - 2) : mailboxes[i].latitude < PI
        /\ mailboxes[Len(mailboxes)].latitude >= PI
        /\ Units(mailboxes[Len(mailboxes)].latitude) < Units(PI) + Units(Spacing)

\* The startup fill has run with a spacing of 10 degrees.
C9_Witness ==
    /\ AfterStartupFill
    /\ distance_between_mailboxes = F32FromInt(10)
    /\ Len(mailboxes) >= 2

\* C10: a draw leaves the flying items, the held item, the mailboxes and
\* the player latitude unchanged.
C10_DrawFrame ==
    [][(\E size \in FbSizes : Draw(size))
           => UNCHANGED <<items, holding, mailboxes, my_latitude>>]_vars

\* A draw has run, and there are an item held, an item flying and
\* mailboxes in the collection.
C10_Witness ==
    /\ framebuffer_size \in FbSizes
    /\ items # <<>> /\ holding # <<>> /\ mailboxes # <<>>

\* A step that is a tick of length dt.
TickStep(dt) == last' = NoEvent /\ holding' = holding /\ Update(dt)

\* Two items with the same kinematic state and angular velocity.
SameMotion(a, b) ==
    a.pos = b.pos /\ a.vel = b.vel /\ a.rot = b.rot /\ a.w = b.w

\* The world positions the pointer can release an item at.
ReleasePoints == {ScreenToWorld(size, px) : size \in FbSizes, px \in Pixels}

\* A second simulation of the item: a game in which a copy of it is the
\* only flying item, nothing is held, there are no mailboxes and the
\* player is at latitude 0.
Solo(item) == Game(<<item>>, <<>>, <<>>, 0)

\* C11: a flying item of the game and a copy of it with identical
\* position, velocity, rotation and angular velocity that flies alone in a
\* second game (no mailboxes, nothing held, no other item), each stepped
\* by the tick with the same dt, have identical position, velocity,
\* rotation and angular velocity after the step, whatever the mailboxes,
\* the held item and the other flying items of the first game are; step
\* after step, the copies stay identical through every sequence of dt.
C11_Determinism ==
    [][\A dt \in DtSet :
           Update(dt) =>
               /\ Len(items') = Len(items)
               /\ \A i \in 1 .. Len(items) :
                      LET copies == TickItems(Solo(items[i]), dt)
                      IN  Len(copies) = 1 /\ SameMotion(items'[i], copies[1])]_vars

\* Two copies released with the same draws at the same point were stepped
\* together by a tick of length 1; then one of them was picked up, and a
\* second tick of length 1 has stepped the other while the first was held:
\* the flying copy is one step ahead of the held one, in a game with
\* mailboxes.
C11_Witness ==
    /\ holding # <<>>
    /\ holding[1].pos \notin ReleasePoints
    /\ mailboxes # <<>>
    /\ \E i \in 1 .. Len(items) :
           /\ items[i].vel = <<holding[1].vel[1], holding[1].vel[2] - gravity>>
           /\ items[i].pos = VAdd(holding[1].pos, items[i].vel)
           /\ items[i].rot = holding[1].rot + holding[1].w
           /\ items[i].w = holding[1].w
           /\ items[i].vel # <<0, 0>>

\* C12: one tick of length dt sets, for every flying item,
\* velocity.y' = velocity.y - gravity*dt, position' = position +
\* velocity'*dt, rotation' = rotation + w*dt, and leaves velocity.x and w
\* unchanged.
C12_IntegrationStep ==
    [][\A dt \in DtSet :
           TickStep(dt) =>
               /\ Len(items') = Len(items)
               /\ \A i \in 1 .. Len(items) :
                      LET old == items[i]
                          new == items'[i]
                      IN  /\ new.vel[2] = old.vel[2] - gravity * dt
                          /\ new.vel[1] = old.vel[1]
                          /\ new.pos[1] = old.pos[1] + new.vel[1] * dt
                          /\ new.pos[2] = old.pos[2] + new.vel[2] * dt
                          /\ new.rot = old.rot + old.w * dt
                          /\ new.w = old.w
                          /\ new.id = old.id]_vars

\* An item thrown straight up from the bag has been stepped by one tick of
\* length 1: it moved by the velocity the tick gave it.
C12_Witness ==
    \E i \in 1 .. Len(items) :
        /\ items[i].vel = <<0, throw_speed - gravity>>
        /\ items[i].pos = <<0, -(CameraFov \div 2) + throw_speed - gravity>>
        /\ my_latitude = ride_speed

\* C13: a tick leaves the held item unchanged and changes neither the
\* membership nor the order of the flying collection.
C13_TickFrame ==
    [][\A dt \in DtSet :
           Update(dt) => (holding' = holding /\ Ids(items') = Ids(items))]_vars

\* All the time of the behaviour has passed, an item is held, and a flying
\* item that fell below the view is still in the collection.
C13_Witness ==
    /\ holding # <<>>
    /\ my_latitude >= F32Mul(ride_speed, F32FromInt(MaxTime))
    /\ \E i \in 1 .. Len(items) : items[i].pos[2] < -(CameraFov \div 2) - 1

\* C14: the fill loop of every tick ends by its own condition (the last
\* mailbox is at or beyond my_latitude + PI), the spacing being positive,
\* and at startup the first pair spawned is at my_latitude + spacing.
C14_FillTerminates ==
    (Spacing > 0 /\ mailboxes # <<>>) =>
        /\ ~MoreWanted(mailboxes, F32Add(my_latitude, PI))
        /\ my_latitude = 0 => mailboxes[1].latitude = F32Add(my_latitude, Spacing)

\* The least n with n * b >= a, for b > 0.
CeilDiv(a, b) == (a + b - 1) \div b

\* C15: after any tick (one whose fill loop has ended) the collection
\* holds at most 2 * (ceil(2*PI / spacing) + 1) mailboxes.
C15_BoundedWindow ==
    (mailboxes # <<>> /\ ~MoreWanted(mailboxes, F32Add(my_latitude, PI))) =>
        Len(mailboxes) <= 2 * (CeilDiv(2 * Units(PI), Units(Spacing)) + 1)

\* C16: with nothing held, a pointer-down over flying items takes exactly
\* the selected one (the others keep their order) and spawns nothing, also
\* inside the bag's region; a fresh item is spawned only when no flying
\* item is hit and the pointer is inside the bag's region.
C16_PickPriority ==
    [][\A px \in Pixels :
           (holding = <<>> /\ MouseDown(px)) =>
               LET pos == ScreenToWorld(framebuffer_size, px)
                   hit == {i \in 1 .. Len(items) : Hit(items[i], pos)}
               IN  IF hit # {}
                   THEN LET k == SetMax(hit)
                        IN  /\ holding' = <<items[k]>>
                            /\ Len(items') = Len(items) - 1
                            /\ \A i \in 1 .. Len(items') :
                                   items'[i] = IF i < k THEN items[i] ELSE items[i + 1]
                            /\ next_id' = next_id
                   ELSE IF InBag(pos)
                   THEN /\ holding' # <<>>
                        /\ holding'[1].id = next_id
                        /\ holding'[1].id \notin IdSet(items)
                        /\ next_id' = next_id + 1
                        /\ items' = items
                   ELSE UNCHANGED <<holding, items, next_id>>]_vars

\* A pick-up with nothing held took a flying item that lay inside the
\* bag's region, and another item still flies.
C16_Witness ==
    /\ last.kind = "pick"
    /\ InBag(ScreenToWorld(framebuffer_size, last.px))
    /\ items # <<>>
    /\ next_id <= MaxItems + 1

\* C17: a pointer-up while an item is held empties the held slot and
\* appends the item as the last element, the earlier elements unchanged;
\* the thrown item wins a hit-test at any point inside its region.
C17_ThrowAppends ==
    [][\A px \in Pixels :
           (holding # <<>> /\ MouseUp(px)) =>
               /\ holding' = <<>>
               /\ Len(items') = Len(items) + 1
               /\ SubSeq(items', 1, Len(items)) = items
               /\ items'[Len(items')].id = holding[1].id
               /\ \A qx \in Pixels :
                      LET pos == ScreenToWorld(framebuffer_size, qx)
                      IN  Hit(items'[Len(items')], pos)
                              => RPosition(items', pos) = Len(items')]_vars

\* An item was thrown onto another flying item: both lie under the same
\* pointer position and the one thrown last is the last element.
C17_Witness ==
    /\ holding = <<>>
    /\ Len(items) = 2
    /\ items[1].id > items[2].id
    /\ \E px \in Pixels :
           LET pos == ScreenToWorld(framebuffer_size, px)
           IN  Hit(items[1], pos) /\ Hit(items[2], pos) /\ items[2].pos = pos

\* A world position outside the bag's rectangle padded by the grab radius.
OutsidePaddedBag(pos) ==
    \/ pos[1] < bag_position.min[1] - hand_radius
    \/ pos[1] >= bag_position.max[1] + hand_radius
    \/ pos[2] < bag_position.min[2] - hand_radius
    \/ pos[2] >= bag_position.max[2] + hand_radius

\* C18: with nothing held, a pointer-down that hits no flying item outside
\* the bag's region and a pointer-up leave the held slot, the flying
\* collection, the mailboxes and the player latitude unchanged.
C18_NoOps ==
    [][\A px \in Pixels :
           LET pos == ScreenToWorld(framebuffer_size, px)
               hit == {i \in 1 .. Len(items) : Hit(items[i], pos)}
           IN  /\ (holding = <<>> /\ hit = {} /\ OutsidePaddedBag(pos) /\ MouseDown(px))
                      => UNCHANGED <<holding, items, mailboxes, my_latitude>>
               /\ (holding = <<>> /\ MouseUp(px))
                      => UNCHANGED <<holding, items, mailboxes, my_latitude>>]_vars

\* An event found nothing to act on in the state with no items and no
\* mailboxes.
C18_Witness ==
    last.kind = "noop" /\ items = <<>> /\ holding = <<>> /\ mailboxes = <<>>

\* The mailboxes are in non-decreasing order of latitude.
Sorted(s) == \A i \in 1 .. (Len(s) - 1) : s[i].latitude <= s[i + 1].latitude

\* C19: the mailbox collection is sorted by non-decreasing latitude, its
\* last element has the maximum latitude, and a step that changes the
\* collection drops mailboxes only from the front: the mailboxes not above
\* my_latitude - PI are its first ones, and the rest is kept, in order, as
\* the first part of the new collection.
C19_QueueOrder ==
    [][/\ Sorted(mailboxes')
       /\ \A i \in 1 .. Len(mailboxes') :
              mailboxes'[i].latitude <= mailboxes'[Len(mailboxes')].latitude
       /\ mailboxes' # mailboxes =>
              LET behind == F32Sub(my_latitude', PI)
                  n == Len(mailboxes)
                  k == Cardinality({i \in 1 .. n : mailboxes[i].latitude <= behind})
              IN  /\ \A i \in 1 .. k : mailboxes[i].latitude <= behind
                  /\ n - k <= Len(mailboxes')
                  /\ SubSeq(mailboxes', 1, n - k) = SubSeq(mailboxes, k + 1, n)]_vars

\* Mailboxes were dropped from the front and new ones appended behind the
\* ones kept, over two ticks.
C19_Witness ==
    /\ SomeDropped
    /\ my_latitude >= F32Mul(ride_speed, F32FromInt(2))
    /\ Len(seeds) = 1
    /\ mailboxes[1].latitude < mailboxes[Len(mailboxes)].latitude

=============================================================================
